---- MODULE Spec2Model ----
(***************************************************************************)
(* A state-machine model of SQLiteModernCpp (src/SQLiteModernCpp/SQLite.h):*)
(* the ownership-safe wrappers SQLiteConnection, SQLiteStatement,          *)
(* SQLiteBackup and SQLiteRowIterator over the native engine's handles.    *)
(*                                                                         *)
(* The native engine (the sqlite3 C API) is the environment, modelled by    *)
(* the Engine* operators: what each primitive returns and what it does to  *)
(* the engine's objects, with the failures it may report drawn as inputs.  *)
(* The generic holder SQLiteHandle<Traits> lives in Handle.h, which is not *)
(* part of the sources at hand; the Handle* operators model it from the    *)
(* design document (section 4.1).                                          *)
(***************************************************************************)
EXTENDS Integers, Sequences, FiniteSets, TLC

\* ------------------------------------------------------------------ bounds

\* Native objects (sessions, statements, backups) the engine hands out in a run.
MaxPtr == 3
\* Rows of the table the row-producing query reads.
MaxRows == 2
\* Pages of the source database a backup copies.
MaxPages == 2
\* Values passed to one BindAll / Prepare call.
MaxBind == 2

\* ------------------------------------------------------- program constants

SQLITE_OK == 0
SQLITE_ERROR == 1
SQLITE_BUSY == 5
SQLITE_NOMEM == 7
SQLITE_CANTOPEN == 14
SQLITE_MISUSE == 21
SQLITE_RANGE == 25
SQLITE_ROW == 100
SQLITE_DONE == 101

\* The null pointer.
NULL == 0

Ptrs == 1..MaxPtr
ConnIds == {1, 2}
StmtIds == {1}
BkIds == {1}
\* The SQLiteStatement and SQLiteBackup objects there are: the ones above, which
\* the specifications drive, and one more to move them to and from.
StmtObjs == {1, 2}
BkObjs == {1, 2}

\* The values a caller binds; an unbound parameter reads as SQL NULL, which
\* sqlite3_column_int reports as 0.
Vals == {42, 7}
UnboundVal == 0

\* ------------------------------------------------------------- the SQL texts

\* "SELECT ?, ?": one row, whose columns are the two parameters.
SqlParams == [valid |-> TRUE, nparams |-> 2, table |-> FALSE]
\* "SELECT id FROM t": one row per row of t, no parameter.
SqlRows == [valid |-> TRUE, nparams |-> 0, table |-> TRUE]
\* A text the engine cannot compile.
SqlBad == [valid |-> FALSE, nparams |-> 0, table |-> FALSE]
SqlTexts == {SqlParams, SqlRows, SqlBad}

NRows(sql) == IF sql.table THEN MaxRows ELSE 1

VARIABLES
  native,   \* the engine's objects: Ptrs -> [kind, live, closes, content]
  errcode,  \* the engine's last extended error code of each session
  vm,       \* the engine's compiled statements: Ptrs -> [db, sql, pc, binds, texts, failed]
  bkst,     \* the engine's backup objects: Ptrs -> [dst, src, remaining, rc]
  conn,     \* SQLiteConnection objects: ConnIds -> [life, h]
  stmt,     \* SQLiteStatement objects: StmtIds -> [life, h]
  bk,       \* SQLiteBackup objects: [life, h, dest], and source: the connection it
            \* was made from, which the object itself does not keep
  it,       \* the SQLiteRowIterator of a range-for loop: [st, read]
  last,     \* what the last operation did, as its caller sees it
  seen,     \* rows read since the cursor was last at the start, while driven one way
  trav,     \* how the cursor was driven since then: "none", "step", "iter", "mixed"
  rewound,  \* whether Reset has rewound the cursor since the statement was prepared
  bkFalse,  \* per Backup, how many Step calls returned false (counted up to 2)
  build     \* how the program was built: [wchar, debug], the size of wchar_t in
            \* bytes and whether _DEBUG is defined

vars == <<native, errcode, vm, bkst, conn, stmt, bk, it, last, seen, trav, rewound, bkFalse, build>>

\* The builds there are, and the one the specifications run unless they say
\* otherwise: 2-byte wchar_t, _DEBUG not defined.
Builds == [wchar : {2, 4}, debug : BOOLEAN]
ReleaseBuild == [wchar |-> 2, debug |-> FALSE]

\* ------------------------------------------------------------ native engine

\* The pages of the main schema of a database nothing was written to.
NoContent == [i \in 1..MaxPages |-> 0]

NoObject == [kind |-> "free", live |-> FALSE, closes |-> 0, content |-> NoContent]
NoVm == [db |-> NULL, sql |-> SqlBad, pc |-> 0, binds |-> <<>>, texts |-> <<>>, failed |-> FALSE]
NoBackup == [dst |-> NULL, src |-> NULL, remaining |-> 0, rc |-> SQLITE_OK]

CanAlloc(nat) == \E p \in Ptrs : nat[p].kind = "free"

\* The engine never hands out the same pointer twice in a run.
Fresh(nat) == CHOOSE p \in Ptrs : nat[p].kind = "free" /\ \A q \in Ptrs : nat[q].kind = "free" => p <= q

EngineAlloc(nat, p, k) ==
  [nat EXCEPT ![p] = [kind |-> k, live |-> TRUE, closes |-> 0, content |-> NoContent]]

\* Statements and backups of a session that are not yet finalized / finished.
Dependents(nat, vms, bks, db) ==
  {p \in Ptrs : /\ nat[p].live
                /\ \/ nat[p].kind = "stmt" /\ vms[p].db = db
                   \/ nat[p].kind = "backup" /\ (bks[p].dst = db \/ bks[p].src = db)}

\* sqlite3_extended_errcode: of a session, its last error; of no session at
\* all, SQLITE_NOMEM.
EngineErrcode(ec, db) == IF db = NULL THEN SQLITE_NOMEM ELSE ec[db]

\* The English text of a result code, which its primary code selects; a
\* text is written as the code it describes.
ErrStr(rc) == <<rc % 256>>

\* sqlite3_errmsg: the text of what sqlite3_extended_errcode reports, of no
\* session at all the text of SQLITE_NOMEM.
EngineErrmsg(ec, db) == ErrStr(EngineErrcode(ec, db))

\* sqlite3_db_handle: the session a statement was prepared on.
EngineDbHandle(v) == v.db

\* ------------------------------------------------------------ SQLiteException

\* The members as their initializers leave them: no code, an empty message.
NoException == [ErrorCode |-> 0, ErrorMessage |-> <<>>, session |-> NULL]

\* An exception constructed without asking the session.
SQLiteExceptionDefault(ec, connection) == [NoException EXCEPT !.session = connection]

\* SQLiteException(connection): the code and a copy of the message, both
\* read from the session given; session notes which one that was.
SQLiteException(ec, connection) ==
  [ErrorCode |-> EngineErrcode(ec, connection), ErrorMessage |-> EngineErrmsg(ec, connection),
   session |-> connection]

\* ------------------------------------------------------------ SQLiteHandle

HandleGet(h) == h

HandleBool(h) == h # NULL

\* Set(): the slot a native call writes its out-parameter to; what the slot
\* held is overwritten, not closed.
HandleSet(h, written) == written

\* Moving a handle: what the target holds and what the source is left with.
HandleMove(source) == [target |-> source, source |-> NULL]

\* ---------------------------------------------------- the Close strategies

\* sqlite3_close: refuses (SQLITE_BUSY) while the session has dependents.
ConnectionClose(nat, vms, bks, p) ==
  [nat EXCEPT ![p] = [@ EXCEPT !.closes = @ + 1,
                               !.live = @ /\ Dependents(nat, vms, bks, p) # {}]]

\* sqlite3_finalize
StatementClose(nat, p) == [nat EXCEPT ![p] = [@ EXCEPT !.closes = @ + 1, !.live = FALSE]]

\* sqlite3_backup_finish: the engine object is gone afterwards.
BackupClose(nat, p) == [nat EXCEPT ![p] = [@ EXCEPT !.closes = @ + 1, !.live = FALSE]]

\* sqlite3_backup_finish publishes the backup's status on the destination
\* session: SQLITE_OK for a backup that is done or in progress.
BackupFinishErrcode(ec, bks, p) ==
  IF bks[p].dst = NULL THEN ec
  ELSE [ec EXCEPT ![bks[p].dst] = IF bks[p].rc = SQLITE_DONE THEN SQLITE_OK ELSE bks[p].rc]

\* ~SQLiteHandle / Reset(): closes if Owning, nothing if Empty.
ConnHandleDestroy(nat, vms, bks, h) == IF HandleBool(h) THEN ConnectionClose(nat, vms, bks, h) ELSE nat
StmtHandleDestroy(nat, h) == IF HandleBool(h) THEN StatementClose(nat, h) ELSE nat
BackupHandleDestroy(nat, h) == IF HandleBool(h) THEN BackupClose(nat, h) ELSE nat

\* ------------------------------------------------------------ what a caller sees

\* op on wrapper obj ended how ("ret", "throw", "terminate", "assert") with return value
\* ret; status is what the native call it rests on returned, code the ErrorCode
\* of the SQLiteException raised, pre the handle the wrapper held before,
\* events the native calls and raises in the order they happened, args the
\* values passed, prevm the engine's statement before, failpos the position
\* of the failing Bind, wrote the pointer a native call wrote to the slot it
\* was given, via the session of the connection the operation was handed,
\* exc the exception raised last.
Completed(op, obj, how, ret, status, code, pre, events, exc) ==
  [op |-> op, obj |-> obj, how |-> how, ret |-> ret, status |-> status, code |-> code,
   pre |-> pre, events |-> events, args |-> <<>>, prevm |-> NoVm, failpos |-> 0,
   wrote |-> NULL, via |-> NULL, exc |-> exc]

\* An exception object is a value of its own: what follows leaves it alone.
Outcome(op, obj, how, ret, status, code, pre, events) ==
  Completed(op, obj, how, ret, status, code, pre, events, last.exc)

\* The outcome of an operation that raised exception if it raised at all.
Thrown(outcome, exception) ==
  IF outcome.how \in {"throw", "terminate"} THEN [outcome EXCEPT !.exc = exception] ELSE outcome

\* SQLiteConnection::ThrowLastError: from the session this connection holds.
ConnThrowLastError(ec, h) == SQLiteException(ec, HandleGet(h))

\* SQLiteStatement::ThrowLastError: from the session the engine names as the
\* statement's.
StmtThrowLastError(ec, v) == SQLiteException(ec, EngineDbHandle(v))

\* noexcept functions that throw end the process, and so do assertions that fail.
Running == last.how \notin {"terminate", "assert"}

\* VERIFY(expression): with _DEBUG an assertion that the expression holds,
\* without it the expression evaluated and its value dropped.
Verify(value) == IF build.debug /\ ~value THEN "assert" ELSE "ret"

\* ------------------------------------------------------------ SQLiteConnection

ConnBool(c) == HandleBool(conn[c].h)
ConnGetAbi(c) == HandleGet(conn[c].h)

OpenResults == {"ok", "fail_handle", "fail_null"}

\* InternalOpen without the temporary: the native open writes into this
\* connection's own slot and the connection raises from it.
InternalOpenInPlace(c, res) ==
  /\ conn[c].life = "alive"
  /\ res # "fail_null" => CanAlloc(native)
  /\ LET p == IF res = "fail_null" THEN NULL ELSE Fresh(native)
         nat1 == IF p = NULL THEN native ELSE EngineAlloc(native, p, "session")
         ec1 == IF res = "fail_handle" THEN [errcode EXCEPT ![p] = SQLITE_CANTOPEN] ELSE errcode
         status == IF res = "ok" THEN SQLITE_OK ELSE EngineErrcode(ec1, p)
     IN /\ native' = nat1
        /\ errcode' = ec1
        /\ conn' = [conn EXCEPT ![c].h = HandleSet(@, p)]
        /\ last' = Thrown([Outcome("Open", c, IF status # SQLITE_OK THEN "throw" ELSE "ret", "void", status,
                           IF status # SQLITE_OK THEN EngineErrcode(ec1, p) ELSE SQLITE_OK,
                           conn[c].h, <<"open">>) EXCEPT !.wrote = p], ConnThrowLastError(ec1, HandleSet(conn[c].h, p)))
  /\ UNCHANGED <<vm, bkst, stmt, bk, it, seen, trav, rewound, bkFalse, build>>

\* InternalOpen: the native open writes into a temporary's slot; on failure
\* the temporary raises from its own handle and is destroyed by the unwinding,
\* on success its handle is swapped with this connection's.
InternalOpen(c, res) ==
  /\ conn[c].life = "alive"
  /\ res # "fail_null" => CanAlloc(native)
  /\ LET p == IF res = "fail_null" THEN NULL ELSE Fresh(native)
         nat1 == IF p = NULL THEN native ELSE EngineAlloc(native, p, "session")
         ec1 == IF res = "fail_handle" THEN [errcode EXCEPT ![p] = SQLITE_CANTOPEN] ELSE errcode
         status == IF res = "ok" THEN SQLITE_OK ELSE EngineErrcode(ec1, p)
         temp == HandleSet(NULL, p)
     IN IF status # SQLITE_OK
        THEN /\ native' = ConnHandleDestroy(nat1, vm, bkst, temp)
             /\ errcode' = ec1
             /\ conn' = conn
             /\ last' = Thrown([Outcome("Open", c, "throw", "void", status, EngineErrcode(ec1, HandleGet(temp)),
                                conn[c].h, <<"open", "raise", "close">>) EXCEPT !.wrote = p], ConnThrowLastError(ec1, temp))
        ELSE /\ native' = ConnHandleDestroy(nat1, vm, bkst, conn[c].h)
             /\ errcode' = ec1
             /\ conn' = [conn EXCEPT ![c].h = temp]
             /\ last' = [Outcome("Open", c, "ret", "void", status, SQLITE_OK, conn[c].h,
                                 <<"open", "swap", "close">>) EXCEPT !.wrote = p]
  /\ UNCHANGED <<vm, bkst, stmt, bk, it, seen, trav, rewound, bkFalse, build>>

Open(c, res) == Running /\ InternalOpen(c, res)

\* A connection outlives the statements prepared against it and the backups
\* that refer to it.
Outlived(c) ==
  /\ \A s \in StmtObjs : HandleBool(stmt[s].h) => vm[stmt[s].h].db # conn[c].h
  /\ \A b \in BkObjs : bk[b].life = "alive" => bk[b].dest # c

\* ~SQLiteConnection
DestroyConnection(c) ==
  /\ Running
  /\ conn[c].life = "alive"
  /\ Outlived(c)
  /\ native' = ConnHandleDestroy(native, vm, bkst, conn[c].h)
  /\ conn' = [conn EXCEPT ![c] = [life |-> "dead", h |-> NULL]]
  /\ last' = Outcome("~Connection", c, "ret", "void", SQLITE_OK, SQLITE_OK, conn[c].h, <<"close">>)
  /\ UNCHANGED <<errcode, vm, bkst, stmt, bk, it, seen, trav, rewound, bkFalse, build>>

\* ------------------------------------------------- text in memory

\* The texts bound: code units of the ASCII range.
Texts == {<<>>, <<65>>, <<65, 66>>}
Encodings == {"narrow", "wide", "u8", "u16"}

\* sizeof(char), sizeof(wchar_t), sizeof(char8_t), sizeof(char16_t)
UnitSize(enc) == IF enc = "wide" THEN build.wchar ELSE IF enc = "u16" THEN 2 ELSE 1

RECURSIVE UnitBytes(_, _)
\* The size bytes of code unit u, lowest first.
UnitBytes(u, size) == IF size = 0 THEN <<>> ELSE <<u % 256>> \o UnitBytes(u \div 256, size - 1)

RECURSIVE Memory(_, _)
\* What c_str() or a literal points to: the code units and a terminating zero unit.
Memory(text, size) ==
  IF text = <<>> THEN UnitBytes(0, size) ELSE UnitBytes(Head(text), size) \o Memory(Tail(text), size)

\* What lies behind the end of a buffer is anything: junk.
Junk == {0, 1}
ByteAt(mem, k, junk) == IF k <= Len(mem) THEN mem[k] ELSE junk

RECURSIVE UnitAt(_, _, _, _)
\* The code unit of size bytes read at byte k.
UnitAt(mem, k, size, junk) ==
  IF size = 0 THEN 0 ELSE ByteAt(mem, k, junk) + 256 * UnitAt(mem, k + 1, size - 1, junk)

RECURSIVE CString(_, _, _, _, _)
\* The code units a reader of a zero-terminated string finds from byte k on,
\* looking at no more than fuel of them.
CString(mem, k, size, junk, fuel) ==
  IF fuel = 0 \/ UnitAt(mem, k, size, junk) = 0 THEN <<>>
  ELSE <<UnitAt(mem, k, size, junk)>> \o CString(mem, k + size, size, junk, fuel - 1)

RECURSIVE UpToZero(_, _, _)
\* The bytes from byte k up to the first zero unit of size bytes.
UpToZero(mem, k, size) ==
  IF k > Len(mem) \/ UnitAt(mem, k, size, 0) = 0 THEN <<>>
  ELSE SubSeq(mem, k, k + size - 1) \o UpToZero(mem, k + size, size)

RECURSIVE Utf8To16(_)
\* UTF-8 to UTF-16 and back, for code points of the ASCII range.
Utf8To16(bytes) == IF bytes = <<>> THEN <<>> ELSE <<Head(bytes), 0>> \o Utf8To16(Tail(bytes))

RECURSIVE Utf16To8(_, _)
Utf16To8(bytes, k) ==
  IF k + 1 > Len(bytes) THEN <<>> ELSE <<UnitAt(bytes, k, 2, 0) % 128>> \o Utf16To8(bytes, k + 2)

\* ------------------------------------------------- the engine's statements

\* The rows of table t, by row number.
TableRow(r) == 10 + r

Columns(sql) == IF sql.table THEN 1 ELSE sql.nparams

\* What the result set of a compiled statement is, given its bindings.
ResultSet(v) ==
  IF v.sql.table THEN [r \in 1..MaxRows |-> <<TableRow(r)>>] ELSE <<v.binds>>

\* A parameter no text is bound to.  unit is 1 for UTF-8 and 2 for UTF-16;
\* bound is what the caller bound: [enc, text].
NoText == [bytes |-> <<>>, unit |-> 0, bound |-> <<>>]

\* sqlite3_prepare_v2: a statement of session db, or an error on db and a
\* null pointer written to the out-parameter.
EnginePrepare(nat, db, sql) ==
  IF sql.valid
  THEN [status |-> SQLITE_OK, out |-> Fresh(nat),
        vm |-> [db |-> db, sql |-> sql, pc |-> 0,
                binds |-> [i \in 1..sql.nparams |-> UnboundVal],
                texts |-> [i \in 1..sql.nparams |-> NoText], failed |-> FALSE]]
  ELSE [status |-> SQLITE_ERROR, out |-> NULL, vm |-> NoVm]

\* A statement that has run to completion or failed restarts by itself on the
\* next sqlite3_step.
AutoReset(v) == v.failed \/ v.pc > NRows(v.sql)

Positioned(v) == ~v.failed /\ v.pc >= 1 /\ v.pc <= NRows(v.sql)

\* sqlite3_step; fault: the engine reports SQLITE_BUSY instead.
EngineStep(v, fault) ==
  LET from == IF AutoReset(v) THEN 0 ELSE v.pc
  IN IF fault THEN [status |-> SQLITE_BUSY, vm |-> [v EXCEPT !.pc = from, !.failed = TRUE]]
     ELSE IF from < NRows(v.sql)
          THEN [status |-> SQLITE_ROW, vm |-> [v EXCEPT !.pc = from + 1, !.failed = FALSE]]
          ELSE [status |-> SQLITE_DONE, vm |-> [v EXCEPT !.pc = NRows(v.sql) + 1, !.failed = FALSE]]

\* sqlite3_reset: back to the start, bindings kept; reports the error of the
\* step that failed, if one did.
EngineReset(v) ==
  [status |-> IF v.failed THEN SQLITE_BUSY ELSE SQLITE_OK,
   vm |-> [v EXCEPT !.pc = 0, !.failed = FALSE]]

\* sqlite3_bind_int; fault: the engine reports SQLITE_NOMEM instead.
EngineBindInt(v, index, value, fault) ==
  LET status == IF v.pc # 0 \/ v.failed THEN SQLITE_MISUSE
                ELSE IF index < 1 \/ index > v.sql.nparams THEN SQLITE_RANGE
                ELSE IF fault THEN SQLITE_NOMEM
                ELSE SQLITE_OK
  IN [status |-> status,
      vm |-> IF status = SQLITE_OK THEN [v EXCEPT !.binds[index] = value, !.texts[index] = NoText] ELSE v]

\* sqlite3_bind_text (unit 1) and sqlite3_bind_text16 (unit 2): size bytes
\* from mem, or when size is negative the bytes up to the first zero unit.
\* Coercion between integers and text is left out.
EngineBindText(v, index, mem, size, unit, bound) ==
  LET status == IF v.pc # 0 \/ v.failed THEN SQLITE_MISUSE
                ELSE IF index < 1 \/ index > v.sql.nparams THEN SQLITE_RANGE
                ELSE SQLITE_OK
      bytes == IF size < 0 THEN UpToZero(mem, 1, unit) ELSE SubSeq(mem, 1, size - (size % unit))
  IN [status |-> status,
      vm |-> IF status = SQLITE_OK
             THEN [v EXCEPT !.texts[index] = [bytes |-> bytes, unit |-> unit, bound |-> bound],
                            !.binds[index] = UnboundVal]
             ELSE v]

\* The text of a column in the encoding asked for.
ColumnBytes(v, column, unit) ==
  LET t == v.texts[column + 1]
  IN IF t.unit = unit \/ t.unit = 0 THEN t.bytes
     ELSE IF unit = 2 THEN Utf8To16(t.bytes) ELSE Utf16To8(t.bytes, 1)

\* sqlite3_column_text (unit 1) and sqlite3_column_text16 (unit 2): the text,
\* zero-terminated.
EngineColumnText(v, column, unit) == ColumnBytes(v, column, unit) \o UnitBytes(0, unit)

\* sqlite3_column_bytes (unit 1) and sqlite3_column_bytes16 (unit 2)
EngineColumnBytes(v, column, unit) == Len(ColumnBytes(v, column, unit))

\* sqlite3_column_int of the current row.
EngineColumnInt(v, column) ==
  IF v.sql.table THEN TableRow(v.pc) ELSE v.binds[column + 1]

\* A statement no caller can reach any more, finalized or not: only the
\* session it belongs to still matters (to sqlite3_close).
Unreachable(vms, p) == IF p = NULL THEN vms ELSE [vms EXCEPT ![p] = [NoVm EXCEPT !.db = vms[p].db]]

\* An engine call that fails leaves its status as the session's last error.
EngineSetError(ec, db, status) == IF status \in {SQLITE_OK, SQLITE_ROW, SQLITE_DONE} THEN ec ELSE [ec EXCEPT ![db] = status]

\* ------------------------------------------------------------ SQLiteReader

GetInt32(v, column) == EngineColumnInt(v, column)

\* The text getters return a pointer; what a caller reads there, as far as
\* one code unit past the engine's buffer.
GetString(v, column, junk) ==
  LET mem == EngineColumnText(v, column, 1) IN CString(mem, 1, 1, junk, Len(mem) + 1)

GetWideString(v, column, junk) ==
  LET mem == EngineColumnText(v, column, 2) IN CString(mem, 1, build.wchar, junk, Len(mem) + 1)

GetU8String(v, column, junk) ==
  LET mem == EngineColumnText(v, column, 1) IN CString(mem, 1, 1, junk, Len(mem) + 1)

GetU16String(v, column, junk) ==
  LET mem == EngineColumnText(v, column, 2) IN CString(mem, 1, 2, junk, Len(mem) + 1)

GetStringLength(v, column) == EngineColumnBytes(v, column, 1)
GetWideStringLength(v, column) == EngineColumnBytes(v, column, 2) \div build.wchar
GetU8StringLength(v, column) == EngineColumnBytes(v, column, 1) \div 1
GetU16StringLength(v, column) == EngineColumnBytes(v, column, 2) \div 2

\* The current row as its reader reports it, column by column.
ReadRow(v) == [i \in 1..Columns(v.sql) |-> GetInt32(v, i - 1)]

\* ------------------------------------------------------------ SQLiteStatement

StmtBool(s) == HandleBool(stmt[s].h)
StmtGetAbi(s) == HandleGet(stmt[s].h)

\* Sequences of at most n values.
BindArgs == UNION {[1..k -> Vals] : k \in 0..MaxBind}

RECURSIVE BindFromIndex(_, _, _, _)
\* (Bind(Index + 1, values), ...) over Index = from .. sizeof...(values) - 1,
\* left to right; a Bind that fails raises and ends it.
BindFromIndex(v, values, Index, failAt) ==
  IF Index >= Len(values) THEN [status |-> SQLITE_OK, at |-> 0, vm |-> v]
  ELSE LET r == EngineBindInt(v, Index + 1, values[Index + 1], failAt = Index + 1)
       IN IF r.status # SQLITE_OK THEN [status |-> r.status, at |-> Index + 1, vm |-> r.vm]
          ELSE BindFromIndex(r.vm, values, Index + 1, failAt)

RECURSIVE BindDownFromIndex(_, _, _, _)
\* The same Binds evaluated right to left.
BindDownFromIndex(v, values, Index, failAt) ==
  IF Index < 0 THEN [status |-> SQLITE_OK, at |-> 0, vm |-> v]
  ELSE LET r == EngineBindInt(v, Index + 1, values[Index + 1], failAt = Index + 1)
       IN IF r.status # SQLITE_OK THEN [status |-> r.status, at |-> Index + 1, vm |-> r.vm]
          ELSE BindDownFromIndex(r.vm, values, Index - 1, failAt)

InternalBindReversed(v, values, failAt) == BindDownFromIndex(v, values, Len(values) - 1, failAt)

InternalBindCpp17(v, values, failAt) == BindFromIndex(v, values, 0, failAt)

\* The rows read are followed for a traversal driven one way only.
Followed(tr, rows) == IF tr = "mixed" THEN <<>> ELSE rows

\* How the cursor has been driven once a direct call moved or rewound it.
TravAfterRewind == IF it.st # NULL THEN "mixed" ELSE "none"

\* BindAll on the statement the wrapper holds.
BindAll(s, values, failAt) ==
  /\ Running
  /\ stmt[s].life = "alive"
  /\ StmtBool(s)
  /\ LET h == StmtGetAbi(s)
         r == InternalBindCpp17(vm[h], values, failAt)
         ec1 == EngineSetError(errcode, vm[h].db, r.status)
     IN /\ vm' = [vm EXCEPT ![h] = r.vm]
        /\ errcode' = ec1
        /\ last' = Thrown([Outcome("BindAll", s, IF r.status = SQLITE_OK THEN "ret" ELSE "throw", "void",
                            r.status, IF r.status = SQLITE_OK THEN SQLITE_OK ELSE EngineErrcode(ec1, vm[h].db),
                            h, <<>>)
                    EXCEPT !.args = values, !.prevm = vm[h], !.failpos = r.at], StmtThrowLastError(ec1, vm[h]))
  /\ UNCHANGED <<native, bkst, conn, stmt, bk, it, seen, trav, rewound, bkFalse, build>>

\* The ways to bind a text: a pointer with the default size, a string by
\* reference, a string whose ownership is transferred.
BindWays == {"pointer", "reference", "owned"}

\* Bind(index, text): the overloads for text.  The pointer overloads pass
\* size -1, the string overloads size() * sizeof(unit); narrow and UTF-8
\* text goes to sqlite3_bind_text, wide and UTF-16 text to sqlite3_bind_text16.
BindText(s, index, enc, way, text) ==
  /\ Running
  /\ stmt[s].life = "alive"
  /\ StmtBool(s)
  /\ LET h == StmtGetAbi(s)
         size == IF way = "pointer" THEN -1 ELSE Len(text) * UnitSize(enc)
         r == EngineBindText(vm[h], index, Memory(text, UnitSize(enc)), size,
                             IF enc \in {"wide", "u16"} THEN 2 ELSE 1,
                             [enc |-> enc, text |-> text])
         ec1 == EngineSetError(errcode, vm[h].db, r.status)
     IN /\ vm' = [vm EXCEPT ![h] = r.vm]
        /\ errcode' = ec1
        /\ last' = Thrown(Outcome("Bind", s, IF r.status = SQLITE_OK THEN "ret" ELSE "throw", "void",
                           r.status, IF r.status = SQLITE_OK THEN SQLITE_OK ELSE EngineErrcode(ec1, vm[h].db),
                           h, IF r.status = SQLITE_OK THEN <<"bind", way>> ELSE <<"bind", way, "raise">>), StmtThrowLastError(ec1, vm[h]))
  /\ UNCHANGED <<native, bkst, conn, stmt, bk, it, seen, trav, rewound, bkFalse, build>>

\* The prepare failed: the connection raises.  h is the handle the statement
\* is left with; the statement whose pointer the slot held can no longer be
\* reached unless it is still the one held.
PrepareRaised(s, db, e, values, h) ==
  LET ec1 == EngineSetError(errcode, db, e.status)
  IN /\ native' = native
     /\ vm' = IF h = stmt[s].h THEN vm ELSE Unreachable(vm, stmt[s].h)
     /\ errcode' = ec1
     /\ stmt' = [stmt EXCEPT ![s].h = h]
     /\ last' = Thrown([Outcome("Prepare", s, "throw", "void", e.status, EngineErrcode(ec1, db),
                         stmt[s].h, <<"prepare", "raise">>)
                 EXCEPT !.args = values, !.via = db], ConnThrowLastError(ec1, db))

\* The prepare succeeded: BindAll(values...) on the new statement.
PrepareBound(s, db, e, values, failAt, h) ==
  LET r == InternalBindCpp17(e.vm, values, failAt)
      ec2 == EngineSetError(errcode, db, r.status)
  IN /\ native' = EngineAlloc(native, e.out, "stmt")
     /\ vm' = [Unreachable(vm, stmt[s].h) EXCEPT ![e.out] = r.vm]
     /\ errcode' = ec2
     /\ stmt' = [stmt EXCEPT ![s].h = h]
     /\ last' = Thrown([Outcome("Prepare", s, IF r.status = SQLITE_OK THEN "ret" ELSE "throw", "void",
                         r.status, IF r.status = SQLITE_OK THEN SQLITE_OK ELSE EngineErrcode(ec2, db),
                         stmt[s].h, IF r.status = SQLITE_OK THEN <<"prepare", "bind">>
                                    ELSE <<"prepare", "bind", "raise">>)
                 EXCEPT !.args = values, !.failpos = r.at, !.wrote = e.out, !.via = db], StmtThrowLastError(ec2, r.vm))

\* InternalPrepare preparing into a temporary and keeping the statement's own
\* handle when the prepare fails.
InternalPrepareIntoTemporary(s, c, sql, values, failAt) ==
  /\ stmt[s].life = "alive"
  /\ conn[c].life = "alive"
  /\ ConnBool(c)
  /\ sql.valid => CanAlloc(native)
  /\ LET db == ConnGetAbi(c)
         e == EnginePrepare(native, db, sql)
     IN IF e.status # SQLITE_OK
        THEN PrepareRaised(s, db, e, values, stmt[s].h)
        ELSE PrepareBound(s, db, e, values, failAt, HandleSet(stmt[s].h, e.out))
  /\ seen' = <<>>
  /\ trav' = TravAfterRewind
  /\ rewound' = FALSE
  /\ UNCHANGED <<bkst, conn, bk, it, bkFalse, build>>

\* InternalPrepare: the native prepare writes into this statement's slot; on
\* failure the connection raises, on success the values are bound.
InternalPrepare(s, c, sql, values, failAt) ==
  /\ stmt[s].life = "alive"
  /\ conn[c].life = "alive"
  /\ ConnBool(c)
  /\ sql.valid => CanAlloc(native)
  /\ LET db == ConnGetAbi(c)
         e == EnginePrepare(native, db, sql)
         h == HandleSet(stmt[s].h, e.out)
     IN IF e.status # SQLITE_OK
        THEN PrepareRaised(s, db, e, values, h)
        ELSE PrepareBound(s, db, e, values, failAt, h)
  /\ seen' = <<>>
  /\ trav' = TravAfterRewind
  /\ rewound' = FALSE
  /\ UNCHANGED <<bkst, conn, bk, it, bkFalse, build>>

Prepare(s, c, sql, values, failAt) == Running /\ InternalPrepare(s, c, sql, values, failAt)

\* Step testing for SQLITE_OK where it should test for SQLITE_DONE.
StepReturnOkForDone(status) ==
  IF status = SQLITE_ROW THEN "true" ELSE IF status = SQLITE_OK THEN "false" ELSE "throw"

\* What Step makes of the native status.
StepReturn(status) ==
  IF status = SQLITE_ROW THEN "true" ELSE IF status = SQLITE_DONE THEN "false" ELSE "throw"

\* A statement that can be stepped: it holds a handle of a session still open.
Steppable(s) ==
  /\ stmt[s].life = "alive"
  /\ StmtBool(s)
  /\ native[StmtGetAbi(s)].live
  /\ native[vm[StmtGetAbi(s)].db].live

\* SQLiteStatement::Step, as called by anyone: the native step, the value
\* returned or the error raised from the statement's own session.
StepCall(s, fault) ==
  LET h == StmtGetAbi(s)
      r == EngineStep(vm[h], fault)
      ec1 == EngineSetError(errcode, vm[h].db, r.status)
  IN [ret |-> StepReturn(r.status), status |-> r.status, vm |-> r.vm, ec |-> ec1,
      code |-> IF StepReturn(r.status) = "throw" THEN EngineErrcode(ec1, vm[h].db) ELSE SQLITE_OK,
      exc |-> StmtThrowLastError(ec1, vm[h])]

\* Step called directly; the caller reads the row it yields.
Step(s, fault) ==
  /\ Running
  /\ Steppable(s)
  /\ LET h == StmtGetAbi(s)
         r == StepCall(s, fault)
         restart == AutoReset(vm[h]) \/ vm[h].pc = 0
         before == IF restart THEN <<>> ELSE seen
         tr == IF it.st # NULL THEN "mixed"
               ELSE IF restart \/ trav = "step" THEN "step" ELSE "mixed"
     IN /\ vm' = [vm EXCEPT ![h] = r.vm]
        /\ errcode' = r.ec
        /\ seen' = Followed(tr, IF r.ret = "true" THEN Append(before, ReadRow(r.vm)) ELSE before)
        /\ trav' = tr
        /\ last' = Thrown(Outcome("Step", s, IF r.ret = "throw" THEN "throw" ELSE "ret",
                           IF r.ret = "throw" THEN "void" ELSE r.ret, r.status, r.code, h,
                           IF r.ret = "throw" THEN <<"step", "raise">> ELSE <<"step">>), r.exc)
  /\ UNCHANGED <<native, bkst, conn, stmt, bk, it, rewound, bkFalse, build>>

\* Execute with a VERIFY that drops its expression unevaluated when _DEBUG
\* is not defined.
ExecuteNotEvaluated(s, fault) ==
  /\ Running
  /\ Steppable(s)
  /\ LET h == StmtGetAbi(s)
         r == IF build.debug THEN StepCall(s, fault)
              ELSE [ret |-> "false", status |-> SQLITE_DONE, vm |-> vm[h], ec |-> errcode, code |-> SQLITE_OK,
                    exc |-> NoException]
         how == IF r.ret = "throw" THEN "throw" ELSE Verify(r.ret = "false")
     IN /\ vm' = [vm EXCEPT ![h] = r.vm]
        /\ errcode' = r.ec
        /\ last' = Thrown([Outcome("Execute", s, how, "void", r.status, r.code, h,
                            IF r.ret = "throw" THEN <<"step", "raise">> ELSE <<"step">>)
                    EXCEPT !.prevm = vm[h]], r.exc)
  /\ seen' = <<>>
  /\ trav' = "mixed"
  /\ UNCHANGED <<native, bkst, conn, stmt, bk, it, rewound, bkFalse, build>>

\* Execute(): VERIFY(!Step()).  One Step, which may raise; that it returned
\* false is asserted with _DEBUG and not looked at without.
Execute(s, fault) ==
  /\ Running
  /\ Steppable(s)
  /\ LET h == StmtGetAbi(s)
         r == StepCall(s, fault)
         how == IF r.ret = "throw" THEN "throw" ELSE Verify(r.ret = "false")
     IN /\ vm' = [vm EXCEPT ![h] = r.vm]
        /\ errcode' = r.ec
        /\ last' = Thrown([Outcome("Execute", s, how, "void", r.status, r.code, h,
                            IF r.ret = "throw" THEN <<"step", "raise">> ELSE <<"step">>)
                    EXCEPT !.prevm = vm[h]], r.exc)
  /\ seen' = <<>>
  /\ trav' = "mixed"
  /\ UNCHANGED <<native, bkst, conn, stmt, bk, it, rewound, bkFalse, build>>

\* Reset that clears the bindings as well (sqlite3_clear_bindings).
ResetAndClear(s) ==
  /\ Running
  /\ Steppable(s)
  /\ LET h == StmtGetAbi(s)
         r == EngineReset(vm[h])
         ec1 == EngineSetError(errcode, vm[h].db, r.status)
     IN /\ vm' = [vm EXCEPT ![h] = [r.vm EXCEPT !.binds = [i \in DOMAIN @ |-> UnboundVal]]]
        /\ errcode' = ec1
        /\ last' = Thrown([Outcome("Reset", s, IF r.status = SQLITE_OK THEN "ret" ELSE "throw", "void", r.status,
                            IF r.status = SQLITE_OK THEN SQLITE_OK ELSE EngineErrcode(ec1, vm[h].db),
                            h, IF r.status = SQLITE_OK THEN <<"reset">> ELSE <<"reset", "raise">>)
                    EXCEPT !.prevm = vm[h]], StmtThrowLastError(ec1, vm[h]))
  /\ seen' = <<>>
  /\ trav' = TravAfterRewind
  /\ rewound' = TRUE
  /\ UNCHANGED <<native, bkst, conn, stmt, bk, it, bkFalse, build>>

\* Reset: rewinds; raises when the native reset reports an error.
Reset(s) ==
  /\ Running
  /\ Steppable(s)
  /\ LET h == StmtGetAbi(s)
         r == EngineReset(vm[h])
         ec1 == EngineSetError(errcode, vm[h].db, r.status)
     IN /\ vm' = [vm EXCEPT ![h] = r.vm]
        /\ errcode' = ec1
        /\ last' = Thrown([Outcome("Reset", s, IF r.status = SQLITE_OK THEN "ret" ELSE "throw", "void", r.status,
                            IF r.status = SQLITE_OK THEN SQLITE_OK ELSE EngineErrcode(ec1, vm[h].db),
                            h, IF r.status = SQLITE_OK THEN <<"reset">> ELSE <<"reset", "raise">>)
                    EXCEPT !.prevm = vm[h]], StmtThrowLastError(ec1, vm[h]))
  /\ seen' = <<>>
  /\ trav' = TravAfterRewind
  /\ rewound' = TRUE
  /\ UNCHANGED <<native, bkst, conn, stmt, bk, it, bkFalse, build>>

\* ~SQLiteStatement; no iterator may outlive its statement.
DestroyStatement(s) ==
  /\ Running
  /\ stmt[s].life = "alive"
  /\ it.st # s
  /\ native' = StmtHandleDestroy(native, stmt[s].h)
  /\ vm' = Unreachable(vm, stmt[s].h)
  /\ stmt' = [stmt EXCEPT ![s] = [life |-> "dead", h |-> NULL]]
  /\ last' = Outcome("~Statement", s, "ret", "void", SQLITE_OK, SQLITE_OK, stmt[s].h, <<"close">>)
  /\ seen' = <<>>
  /\ trav' = "none"
  /\ rewound' = FALSE
  /\ UNCHANGED <<errcode, bkst, conn, bk, it, bkFalse, build>>

\* ------------------------------------------------------------ SQLiteRowIterator

NoIterator == [st |-> NULL, read |-> FALSE]

\* it != end(statement)
IterNotEnd == it.st # NULL

\* The constructor keeping the statement whatever the step yields.
BeginKeeping(s, fault) ==
  /\ Running
  /\ Steppable(s)
  /\ LET h == StmtGetAbi(s)
         r == StepCall(s, fault)
         restart == AutoReset(vm[h]) \/ vm[h].pc = 0
     IN /\ vm' = [vm EXCEPT ![h] = r.vm]
        /\ errcode' = r.ec
        /\ it' = IF r.ret = "throw" THEN it ELSE [st |-> s, read |-> FALSE]
        /\ seen' = <<>>
        /\ trav' = IF restart THEN "iter" ELSE "mixed"
        /\ last' = Thrown(Outcome("begin", s, IF r.ret = "throw" THEN "terminate" ELSE "ret",
                           IF r.ret = "throw" THEN "void" ELSE r.ret, r.status, r.code, h,
                           IF r.ret = "throw" THEN <<"step", "raise">> ELSE <<"step">>), r.exc)
  /\ UNCHANGED <<native, bkst, conn, stmt, bk, rewound, bkFalse, build>>

\* begin(statement): the constructor steps once and keeps the statement if
\* that yields a row.  The constructor is noexcept: a Step that raises ends
\* the process.
Begin(s, fault) ==
  /\ Running
  /\ Steppable(s)
  /\ LET h == StmtGetAbi(s)
         r == StepCall(s, fault)
         restart == AutoReset(vm[h]) \/ vm[h].pc = 0
     IN /\ vm' = [vm EXCEPT ![h] = r.vm]
        /\ errcode' = r.ec
        /\ it' = IF r.ret = "true" THEN [st |-> s, read |-> FALSE]
                 ELSE IF r.ret = "false" THEN NoIterator ELSE it
        /\ seen' = <<>>
        /\ trav' = IF restart THEN "iter" ELSE "mixed"
        /\ last' = Thrown(Outcome("begin", s, IF r.ret = "throw" THEN "terminate" ELSE "ret",
                           IF r.ret = "throw" THEN "void" ELSE r.ret, r.status, r.code, h,
                           IF r.ret = "throw" THEN <<"step", "raise">> ELSE <<"step">>), r.exc)
  /\ UNCHANGED <<native, bkst, conn, stmt, bk, rewound, bkFalse, build>>

\* operator*: a Row over the statement's handle, read by the loop body.
Deref ==
  /\ Running
  /\ IterNotEnd
  /\ ~it.read
  /\ Steppable(it.st)
  /\ Positioned(vm[StmtGetAbi(it.st)])
  /\ it' = [it EXCEPT !.read = TRUE]
  /\ seen' = Followed(trav, Append(seen, ReadRow(vm[StmtGetAbi(it.st)])))
  /\ last' = Outcome("*", it.st, "ret", "row", SQLITE_OK, SQLITE_OK, StmtGetAbi(it.st), <<>>)
  /\ UNCHANGED <<native, errcode, vm, bkst, conn, stmt, bk, trav, rewound, bkFalse, build>>

\* operator++ stepping once to test and once more to advance.
AdvanceSkipping(fault) ==
  /\ Running
  /\ IterNotEnd
  /\ it.read
  /\ Steppable(it.st)
  /\ LET s == it.st
         h == StmtGetAbi(s)
         r1 == EngineStep(vm[h], fault)
         r == IF StepReturn(r1.status) = "true" THEN EngineStep(r1.vm, fault) ELSE r1
         ret == StepReturn(r.status)
     IN /\ vm' = [vm EXCEPT ![h] = r.vm]
        /\ errcode' = EngineSetError(errcode, vm[h].db, r.status)
        /\ it' = IF ret = "false" THEN NoIterator ELSE [st |-> s, read |-> FALSE]
        /\ trav' = IF AutoReset(vm[h]) \/ vm[h].pc = 0 THEN "mixed" ELSE trav
        /\ seen' = Followed(IF AutoReset(vm[h]) \/ vm[h].pc = 0 THEN "mixed" ELSE trav, seen)
        /\ last' = Thrown(Outcome("++", s, IF ret = "throw" THEN "terminate" ELSE "ret",
                           IF ret = "throw" THEN "void" ELSE ret, r.status, SQLITE_OK, h, <<"step", "step">>),
                           StmtThrowLastError(EngineSetError(errcode, vm[h].db, r.status), vm[h]))
  /\ UNCHANGED <<native, bkst, conn, stmt, bk, rewound, bkFalse, build>>

\* operator++ at the end of the loop body: steps, and forgets the statement
\* when no row is left.  noexcept as well.
Advance(fault) ==
  /\ Running
  /\ IterNotEnd
  /\ it.read
  /\ Steppable(it.st)
  /\ LET s == it.st
         h == StmtGetAbi(s)
         r == StepCall(s, fault)
     IN /\ vm' = [vm EXCEPT ![h] = r.vm]
        /\ errcode' = r.ec
        /\ it' = IF r.ret = "false" THEN NoIterator
                 ELSE IF r.ret = "true" THEN [st |-> s, read |-> FALSE] ELSE it
        /\ trav' = IF AutoReset(vm[h]) \/ vm[h].pc = 0 THEN "mixed" ELSE trav
        /\ seen' = Followed(IF AutoReset(vm[h]) \/ vm[h].pc = 0 THEN "mixed" ELSE trav, seen)
        /\ last' = Thrown(Outcome("++", s, IF r.ret = "throw" THEN "terminate" ELSE "ret",
                           IF r.ret = "throw" THEN "void" ELSE r.ret, r.status, r.code, h,
                           IF r.ret = "throw" THEN <<"step", "raise">> ELSE <<"step">>), r.exc)
  /\ UNCHANGED <<native, bkst, conn, stmt, bk, rewound, bkFalse, build>>

\* The loop is left early (break): the iterator goes away, nothing else does.
LoopExit ==
  /\ Running
  /\ IterNotEnd
  /\ it' = NoIterator
  /\ last' = Outcome("break", it.st, "ret", "void", SQLITE_OK, SQLITE_OK, NULL, <<>>)
  /\ UNCHANGED <<native, errcode, vm, bkst, conn, stmt, bk, seen, trav, rewound, bkFalse, build>>

\* ------------------------------------------------------------ SQLiteBackup

Min(a, b) == IF a < b THEN a ELSE b

\* sqlite3_backup_init: a backup of the source database (MaxPages pages) into
\* dst, or no handle and an error on dst when both are the same session.
EngineBackupInit(nat, dst, src) ==
  IF dst = src
  THEN [out |-> NULL, status |-> SQLITE_ERROR, bk |-> NoBackup]
  ELSE [out |-> Fresh(nat), status |-> SQLITE_OK,
        bk |-> [dst |-> dst, src |-> src, remaining |-> MaxPages, rc |-> SQLITE_OK]]

\* sqlite3_backup_step: copies up to pages pages (all of them when negative);
\* SQLITE_OK while pages remain, SQLITE_DONE when none does, and the same
\* status again once the backup is done or has failed.  fault: the engine
\* reports SQLITE_BUSY instead of copying.
EngineBackupStep(b, pages, fault) ==
  IF b.rc # SQLITE_OK THEN [status |-> b.rc, bk |-> b]
  ELSE IF fault THEN [status |-> SQLITE_BUSY, bk |-> [b EXCEPT !.rc = SQLITE_BUSY]]
  ELSE LET n == IF pages < 0 THEN b.remaining ELSE Min(pages, b.remaining)
           status == IF b.remaining - n = 0 THEN SQLITE_DONE ELSE SQLITE_OK
       IN [status |-> status, bk |-> [b EXCEPT !.remaining = @ - n, !.rc = status]]

\* The pages a sqlite3_backup_step that took the backup from b0 to b1 has
\* copied from the source's main schema to the destination's, in page order.
EngineBackupCopy(nat, b0, b1) ==
  [nat EXCEPT ![b0.dst].content =
     [i \in 1..MaxPages |-> IF i > MaxPages - b0.remaining /\ i <= MaxPages - b1.remaining
                            THEN nat[b0.src].content[i] ELSE @[i]]]

\* A write to page i of a session's main schema.
EngineWrite(nat, db, i, value) == [nat EXCEPT ![db].content[i] = value]

BackupGetAbi(b) == HandleGet(bk[b].h)

\* The sessions sqlite3_backup_init is given, the other way round.
BackupInitArgsSwapped(d, src) == [dst |-> ConnGetAbi(src), src |-> ConnGetAbi(d)]

\* The sessions the constructor gives sqlite3_backup_init as destination and source.
BackupInitArgs(d, src) == [dst |-> ConnGetAbi(d), src |-> ConnGetAbi(src)]

\* SQLiteBackup(destination, source): raises from the destination when the
\* engine gives no handle; the object then never comes to exist.
BackupCtor(b, d, src) ==
  /\ Running
  /\ bk[b].life = "unborn"
  /\ conn[d].life = "alive" /\ ConnBool(d)
  /\ conn[src].life = "alive" /\ ConnBool(src)
  /\ ConnGetAbi(d) # ConnGetAbi(src) => CanAlloc(native)
  /\ LET e == EngineBackupInit(native, BackupInitArgs(d, src).dst, BackupInitArgs(d, src).src)
         ec1 == EngineSetError(errcode, ConnGetAbi(d), e.status)
     IN /\ errcode' = ec1
        /\ IF ~HandleBool(e.out)
           THEN /\ UNCHANGED <<native, bkst, bk>>
                /\ last' = Thrown([Outcome("Backup", b, "throw", "void", e.status, EngineErrcode(ec1, ConnGetAbi(d)),
                                   NULL, <<"init", "raise">>) EXCEPT !.via = ConnGetAbi(d)], ConnThrowLastError(ec1, conn[d].h))
           ELSE /\ native' = EngineAlloc(native, e.out, "backup")
                /\ bkst' = [bkst EXCEPT ![e.out] = e.bk]
                /\ bk' = [bk EXCEPT ![b] = [life |-> "alive", h |-> e.out, dest |-> d, source |-> src]]
                /\ last' = Outcome("Backup", b, "ret", "void", e.status, SQLITE_OK, NULL, <<"init">>)
  /\ bkFalse' = [bkFalse EXCEPT ![b] = 0]
  /\ UNCHANGED <<vm, conn, stmt, it, seen, trav, rewound, build>>

\* BackupStepReturn taking done for "more pages remain".
BackupStepReturnDoneTrue(status) ==
  IF status = SQLITE_OK \/ status = SQLITE_DONE THEN "true" ELSE "throw"

\* What Step makes of the native status.
BackupStepReturn(status) ==
  IF status = SQLITE_OK THEN "true" ELSE IF status = SQLITE_DONE THEN "false" ELSE "throw"

\* Step(pages) raising before it finishes the handle: the raise leaves Step,
\* and the handle stays as it is.
BackupStepRaisesFirst(b, status, pages) ==
  /\ UNCHANGED <<native, errcode, bk>>
  /\ last' = Thrown([Outcome("Backup.Step", b, "throw", "void", status,
                      EngineErrcode(errcode, ConnGetAbi(bk[b].dest)), BackupGetAbi(b), <<"step", "raise">>)
              EXCEPT !.args = <<pages>>], ConnThrowLastError(errcode, conn[bk[b].dest].h))

\* Step(pages): on a status that is neither ok nor done the handle is
\* finished first, which publishes the error on the destination session, and
\* the destination connection raises after that.
BackupStepFails(b, status, pages) ==
  LET h == BackupGetAbi(b)
      d == bk[b].dest
      ec1 == BackupFinishErrcode(errcode, bkst', h)
  IN /\ native' = BackupHandleDestroy(native, bk[b].h)
     /\ errcode' = ec1
     /\ bk' = [bk EXCEPT ![b].h = NULL]
     /\ last' = Thrown([Outcome("Backup.Step", b, "throw", "void", status, EngineErrcode(ec1, ConnGetAbi(d)),
                         h, <<"step", "finish", "raise">>)
                 EXCEPT !.args = <<pages>>], ConnThrowLastError(ec1, conn[d].h))

BackupStep(b, pages, fault) ==
  /\ Running
  /\ bk[b].life = "alive"
  /\ HandleBool(bk[b].h)
  /\ conn[bk[b].dest].life = "alive"
  /\ LET h == BackupGetAbi(b)
         r == EngineBackupStep(bkst[h], pages, fault)
         ret == BackupStepReturn(r.status)
     IN /\ bkst' = [bkst EXCEPT ![h] = r.bk]
        /\ IF ret = "throw"
           THEN /\ BackupStepFails(b, r.status, pages)
                /\ UNCHANGED bkFalse
           ELSE /\ last' = [Outcome("Backup.Step", b, "ret", ret, r.status, SQLITE_OK, h, <<"step">>)
                            EXCEPT !.args = <<pages>>]
                /\ bkFalse' = [bkFalse EXCEPT ![b] = IF ret = "false" THEN Min(@ + 1, 2) ELSE @]
                /\ native' = EngineBackupCopy(native, bkst[h], r.bk)
                /\ UNCHANGED <<errcode, bk>>
  /\ UNCHANGED <<vm, conn, stmt, it, seen, trav, rewound, build>>

\* ~SQLiteBackup: finishes the backup if it still holds one.
DestroyBackup(b) ==
  /\ Running
  /\ bk[b].life = "alive"
  /\ native' = BackupHandleDestroy(native, bk[b].h)
  /\ errcode' = IF HandleBool(bk[b].h) THEN BackupFinishErrcode(errcode, bkst, bk[b].h) ELSE errcode
  /\ bk' = [bk EXCEPT ![b] = [life |-> "dead", h |-> NULL, dest |-> NULL, source |-> NULL]]
  /\ last' = Outcome("~Backup", b, "ret", "void", SQLITE_OK, SQLITE_OK, bk[b].h, <<"close">>)
  /\ UNCHANGED <<vm, bkst, conn, stmt, it, seen, trav, rewound, bkFalse, build>>

\* ------------------------------------------------------------ Execute

\* The backups of the engine that are not finished and copy from or to db.
BackupsOver(db) ==
  {p \in Ptrs : native[p].kind = "backup" /\ native[p].live /\ (bkst[p].dst = db \/ bkst[p].src = db)}

\* Execute(connection, "INSERT ...", value) writing value to page i of the
\* connection's main schema; the statement it compiles is finalized before it
\* returns.  Callers do not write to a database a backup is copying.
ExecuteInsert(c, i, value) ==
  /\ Running
  /\ conn[c].life = "alive"
  /\ ConnBool(c)
  /\ native[ConnGetAbi(c)].live
  /\ BackupsOver(ConnGetAbi(c)) = {}
  /\ native' = EngineWrite(native, ConnGetAbi(c), i, value)
  /\ last' = [Outcome("Execute(INSERT)", c, "ret", "void", SQLITE_DONE, SQLITE_OK, ConnGetAbi(c),
                      <<"prepare", "bind", "step", "close">>)
              EXCEPT !.args = <<value>>]
  /\ UNCHANGED <<errcode, vm, bkst, conn, stmt, bk, it, seen, trav, rewound, bkFalse, build>>

\* ------------------------------------------------------------ moves

\* The wrappers declare no move operations of their own: the compiler's
\* member-wise ones move m_Handle and copy the plain pointer m_Destination.
\* kind "construct" makes the target (it did not exist), kind "assign" moves
\* into a target that exists, whose handle closes what it held.
MoveKinds == {"construct", "assign"}

\* A member-wise copy in place of the move: both objects hold the pointer.
CopyConnection(t, s, kind) ==
  /\ Running
  /\ t # s
  /\ conn[s].life = "alive"
  /\ IF kind = "construct" THEN conn[t].life # "alive" ELSE conn[t].life = "alive" /\ Outlived(t)
  /\ native' = IF kind = "assign" THEN ConnHandleDestroy(native, vm, bkst, conn[t].h) ELSE native
  /\ conn' = [conn EXCEPT ![t] = [life |-> "alive", h |-> conn[s].h]]
  /\ last' = [Outcome("Connection.move", t, "ret", "void", SQLITE_OK, SQLITE_OK, conn[s].h,
                      IF kind = "assign" /\ ConnBool(t) THEN <<"close", "move">> ELSE <<"move">>)
              EXCEPT !.args = <<s>>]
  /\ UNCHANGED <<errcode, vm, bkst, stmt, bk, it, seen, trav, rewound, bkFalse, build>>

\* SQLiteConnection(SQLiteConnection&&) and operator=(SQLiteConnection&&)
MoveConnection(t, s, kind) ==
  /\ Running
  /\ t # s
  /\ conn[s].life = "alive"
  /\ IF kind = "construct" THEN conn[t].life # "alive" ELSE conn[t].life = "alive" /\ Outlived(t)
  /\ native' = IF kind = "assign" THEN ConnHandleDestroy(native, vm, bkst, conn[t].h) ELSE native
  /\ conn' = [conn EXCEPT ![t] = [life |-> "alive", h |-> HandleMove(conn[s].h).target],
                          ![s].h = HandleMove(conn[s].h).source]
  /\ last' = [Outcome("Connection.move", t, "ret", "void", SQLITE_OK, SQLITE_OK, conn[s].h,
                      IF kind = "assign" /\ ConnBool(t) THEN <<"close", "move">> ELSE <<"move">>)
              EXCEPT !.args = <<s>>]
  /\ UNCHANGED <<errcode, vm, bkst, stmt, bk, it, seen, trav, rewound, bkFalse, build>>

\* SQLiteStatement(SQLiteStatement&&) and operator=(SQLiteStatement&&); no
\* iterator refers to either statement.
MoveStatement(t, s, kind) ==
  /\ Running
  /\ t # s
  /\ it.st \notin {t, s}
  /\ stmt[s].life = "alive"
  /\ IF kind = "construct" THEN stmt[t].life # "alive" ELSE stmt[t].life = "alive"
  /\ native' = IF kind = "assign" THEN StmtHandleDestroy(native, stmt[t].h) ELSE native
  /\ vm' = IF kind = "assign" THEN Unreachable(vm, stmt[t].h) ELSE vm
  /\ stmt' = [stmt EXCEPT ![t] = [life |-> "alive", h |-> HandleMove(stmt[s].h).target],
                          ![s].h = HandleMove(stmt[s].h).source]
  /\ last' = [Outcome("Statement.move", t, "ret", "void", SQLITE_OK, SQLITE_OK, stmt[s].h,
                      IF kind = "assign" /\ StmtBool(t) THEN <<"close", "move">> ELSE <<"move">>)
              EXCEPT !.args = <<s>>]
  /\ seen' = <<>>
  /\ trav' = "none"
  /\ rewound' = FALSE
  /\ UNCHANGED <<errcode, bkst, conn, bk, it, bkFalse, build>>

\* SQLiteBackup(SQLiteBackup&&) and operator=(SQLiteBackup&&): the target
\* refers to the same destination connection as the source.
MoveBackup(t, s, kind) ==
  /\ Running
  /\ t # s
  /\ bk[s].life = "alive"
  /\ IF kind = "construct" THEN bk[t].life # "alive" ELSE bk[t].life = "alive"
  /\ native' = IF kind = "assign" THEN BackupHandleDestroy(native, bk[t].h) ELSE native
  /\ errcode' = IF kind = "assign" /\ HandleBool(bk[t].h)
                THEN BackupFinishErrcode(errcode, bkst, bk[t].h) ELSE errcode
  /\ bk' = [bk EXCEPT ![t] = [life |-> "alive", h |-> HandleMove(bk[s].h).target, dest |-> bk[s].dest,
                              source |-> bk[s].source],
                      ![s].h = HandleMove(bk[s].h).source]
  /\ bkFalse' = [bkFalse EXCEPT ![t] = bkFalse[s]]
  /\ last' = [Outcome("Backup.move", t, "ret", "void", SQLITE_OK, SQLITE_OK, bk[s].h,
                      IF kind = "assign" /\ HandleBool(bk[t].h) THEN <<"close", "move">> ELSE <<"move">>)
              EXCEPT !.args = <<s>>]
  /\ UNCHANGED <<vm, bkst, conn, stmt, it, seen, trav, rewound, build>>

\* ------------------------------------------------------------ specification

\* The state after the wrappers are constructed, the first nOpen connections
\* from a file name that opens (sessions 1..nOpen), the others and the
\* statements by their default constructors; no Backup exists yet.  how is
\* the build.
InitBuilt(nOpen, how) ==
  /\ native = [p \in Ptrs |-> IF p <= nOpen THEN [NoObject EXCEPT !.kind = "session", !.live = TRUE]
                              ELSE NoObject]
  /\ errcode = [p \in Ptrs |-> SQLITE_OK]
  /\ vm = [p \in Ptrs |-> NoVm]
  /\ bkst = [p \in Ptrs |-> NoBackup]
  /\ conn = [c \in ConnIds |-> [life |-> "alive", h |-> IF c <= nOpen THEN c ELSE NULL]]
  /\ stmt = [s \in StmtObjs |-> [life |-> "alive", h |-> NULL]]
  /\ bk = [b \in BkObjs |-> [life |-> "unborn", h |-> NULL, dest |-> NULL, source |-> NULL]]
  /\ it = NoIterator
  /\ last = Completed("init", 0, "ret", "void", SQLITE_OK, SQLITE_OK, NULL, <<>>, NoException)
  /\ seen = <<>>
  /\ trav = "none"
  /\ rewound = FALSE
  /\ bkFalse = [b \in BkObjs |-> 0]
  /\ build = how

InitWith(nOpen) == InitBuilt(nOpen, ReleaseBuild)

NextConn ==
  \/ \E c \in ConnIds, res \in OpenResults : Open(c, res)
  \/ \E c \in ConnIds : DestroyConnection(c)

\* The positions at which the engine may be made to fail a Bind of values.
FailPositions(values) == 0..Len(values)

\* Binding: every text, every sequence of values, every failing position.
NextBind ==
  \/ \E s \in StmtIds, c \in ConnIds, sql \in SqlTexts, values \in BindArgs :
       \E failAt \in FailPositions(values) : Prepare(s, c, sql, values, failAt)
  \/ \E s \in StmtIds, values \in BindArgs :
       \E failAt \in FailPositions(values) : BindAll(s, values, failAt)
  \/ \E s \in StmtIds : Step(s, FALSE)
  \/ \E s \in StmtIds : Reset(s)
  \/ \E s \in StmtIds : DestroyStatement(s)

\* The values the statements of the row specification are prepared with.
RowArgs == {<<>>, <<42>>, <<42, 7>>}

\* Rows: stepping, rewinding and iterating, with the engine free to fail a step.
NextStmt ==
  \/ \E s \in StmtIds, c \in ConnIds, sql \in SqlTexts, values \in RowArgs :
       Prepare(s, c, sql, values, 0)
  \/ \E s \in StmtIds, fault \in BOOLEAN : Step(s, fault)
  \/ \E s \in StmtIds : Reset(s)
  \/ \E s \in StmtIds : DestroyStatement(s)
  \/ \E s \in StmtIds, fault \in BOOLEAN : Begin(s, fault)
  \/ Deref
  \/ \E fault \in BOOLEAN : Advance(fault)
  \/ LoopExit


Init == InitWith(0)
InitStmt == InitWith(1)
InitBackup == InitWith(2)

\* The page counts a caller passes to Backup.Step; -1 is the default.
PageCounts == {-1} \cup 0..MaxPages

NextBackup ==
  \/ \E b \in BkIds, d \in ConnIds, src \in ConnIds : BackupCtor(b, d, src)
  \/ \E b \in BkIds, pages \in PageCounts, fault \in BOOLEAN : BackupStep(b, pages, fault)
  \/ \E b \in BkIds : DestroyBackup(b)
  \/ \E c \in ConnIds, res \in OpenResults : Open(c, res)

\* A caller that keeps stepping with a positive page count, the engine not failing.
KeepStepping == \E b \in BkIds, pages \in 1..MaxPages : BackupStep(b, pages, FALSE)

\* Lifetimes: every wrapper made, used once over and destroyed, in any order.
NextLife ==
  \/ \E c \in ConnIds, res \in OpenResults : Open(c, res)
  \/ \E c \in ConnIds : DestroyConnection(c)
  \/ \E s \in StmtIds, c \in ConnIds, sql \in SqlTexts : Prepare(s, c, sql, <<>>, 0)
  \/ \E s \in StmtIds : Step(s, FALSE)
  \/ \E s \in StmtIds : Reset(s)
  \/ \E s \in StmtIds : DestroyStatement(s)
  \/ \E b \in BkIds, d \in ConnIds, src \in ConnIds : BackupCtor(b, d, src)
  \/ \E b \in BkIds, fault \in BOOLEAN : BackupStep(b, -1, fault)
  \/ \E b \in BkIds : DestroyBackup(b)

\* Moves: wrappers of every kind made, moved about and destroyed.
NextMove ==
  \/ \E s \in StmtObjs, c \in ConnIds : Prepare(s, c, SqlRows, <<>>, 0)
  \/ \E b \in BkObjs, d \in ConnIds, src \in ConnIds : BackupCtor(b, d, src)
  \/ \E t \in ConnIds, s \in ConnIds, kind \in MoveKinds : MoveConnection(t, s, kind)
  \/ \E t \in StmtObjs, s \in StmtObjs, kind \in MoveKinds : MoveStatement(t, s, kind)
  \/ \E t \in BkObjs, s \in BkObjs, kind \in MoveKinds : MoveBackup(t, s, kind)
  \/ \E c \in ConnIds : DestroyConnection(c)
  \/ \E s \in StmtObjs : DestroyStatement(s)
  \/ \E b \in BkObjs : DestroyBackup(b)

\* Copies: databases written, then copied by a Backup, the engine free to fail.
NextCopy ==
  \/ \E c \in ConnIds, i \in 1..MaxPages, value \in Vals : ExecuteInsert(c, i, value)
  \/ \E b \in BkIds, d \in ConnIds, src \in ConnIds : BackupCtor(b, d, src)
  \/ \E b \in BkIds, pages \in PageCounts, fault \in BOOLEAN : BackupStep(b, pages, fault)
  \/ \E b \in BkIds : DestroyBackup(b)

\* One open connection, 2-byte or 4-byte wchar_t.
InitText == \E b \in Builds : ~b.debug /\ InitBuilt(1, b)

\* Text: a statement prepared once, text bound to it in every encoding and
\* way, at every position, and read.
NextText ==
  \/ \E s \in StmtIds, c \in ConnIds : ~StmtBool(s) /\ Prepare(s, c, SqlParams, <<>>, 0)
  \/ \E s \in StmtIds, index \in 1..MaxBind, enc \in Encodings, way \in BindWays, text \in Texts :
       BindText(s, index, enc, way, text)
  \/ \E s \in StmtIds : Step(s, FALSE)
  \/ \E s \in StmtIds : Reset(s)

\* One open connection, built with or without _DEBUG.
InitExec == \E how \in Builds : how.wchar = ReleaseBuild.wchar /\ InitBuilt(1, how)

\* Execute on statements that produce rows and on statements stepped to
\* their end, the engine free to fail.
NextExec ==
  \/ \E s \in StmtIds, c \in ConnIds, sql \in SqlTexts, values \in RowArgs :
       Prepare(s, c, sql, values, 0)
  \/ \E s \in StmtIds, fault \in BOOLEAN : Execute(s, fault)
  \/ \E s \in StmtIds : Step(s, FALSE)
  \/ \E s \in StmtIds : Reset(s)

\* Connections alone.
SpecConn == Init /\ [][NextConn]_vars

\* One statement and its row iterator over one open connection.
Spec == InitStmt /\ [][NextStmt]_vars

\* All wrappers from their construction to their destruction.
SpecLife == Init /\ [][NextLife]_vars

\* One Backup between two open connections, its caller stepping on.
SpecBackup == InitBackup /\ [][NextBackup]_vars /\ WF_vars(KeepStepping)

\* One statement, prepared and bound in every way, over one open connection.
SpecBind == InitStmt /\ [][NextBind]_vars

\* Failures: every operation that can raise, on two open connections that
\* outlive what depends on them, the engine free to fail.
NextErr ==
  \/ \E c \in ConnIds, res \in OpenResults : Outlived(c) /\ Open(c, res)
  \/ \E s \in StmtIds, c \in ConnIds, sql \in {SqlParams, SqlBad}, failAt \in FailPositions(<<42>>) :
       Prepare(s, c, sql, <<42>>, failAt)
  \/ \E s \in StmtIds, failAt \in FailPositions(<<7>>) : BindAll(s, <<7>>, failAt)
  \/ \E s \in StmtIds, fault \in BOOLEAN : Step(s, fault)
  \/ \E s \in StmtIds : Reset(s)
  \/ \E b \in BkIds, d \in ConnIds, src \in ConnIds : BackupCtor(b, d, src)
  \/ \E b \in BkIds, fault \in BOOLEAN : BackupStep(b, -1, fault)
  \/ \E b \in BkIds : DestroyBackup(b)

SpecErr == InitBackup /\ [][NextErr]_vars

\* One statement executed, in a build with _DEBUG and in one without.
SpecExec == InitExec /\ [][NextExec]_vars

\* One statement with text bound to it, stepped and read.
SpecText == InitText /\ [][NextText]_vars

\* Two open connections written to, and one Backup between them.
SpecCopy == InitBackup /\ [][NextCopy]_vars

\* Two open connections, statements and backups made over them and moved.
SpecMove == InitBackup /\ [][NextMove]_vars

\* ------------------------------------------------------------------ claims

\* C1: after every Open, if the native open succeeded the connection converts
\* to true and GetAbi() is non-null; if it failed, an SQLiteException with a
\* non-zero code was raised and the connection holds exactly the handle it held
\* before the call.
C1_OpenAllOrNothing ==
  \A c \in ConnIds :
    (last.op = "Open" /\ last.obj = c) =>
      /\ last.status = SQLITE_OK => (last.how = "ret" /\ ConnBool(c) /\ ConnGetAbi(c) # NULL)
      /\ last.status # SQLITE_OK =>
           (last.how = "throw" /\ last.code # 0 /\ conn[c].h = last.pre
            /\ ConnBool(c) = (last.pre # NULL) /\ ConnGetAbi(c) = last.pre)

\* C1 witness: an Open that failed on a connection that already held a session,
\* the engine having written a handle for the failed open.
C1_Witness ==
  /\ last.op = "Open" /\ last.how = "throw" /\ last.status = SQLITE_CANTOPEN
  /\ last.pre # NULL /\ conn[last.obj].h = last.pre

\* The wrappers that own native pointer p.
Owners(p) ==
  {<<"connection", c>> : c \in {x \in ConnIds : conn[x].h = p}}
    \cup {<<"statement", s>> : s \in {x \in StmtObjs : stmt[x].h = p}}
    \cup {<<"backup", b>> : b \in {x \in BkObjs : bk[x].h = p}}

\* C2: every native pointer the engine handed out is owned by at most one
\* wrapper, its close operation never ran twice, and once no wrapper owns it
\* (so no destructor is left to close it) its close operation has run exactly
\* once.
C2_OwnedOnceClosedOnce ==
  \A p \in Ptrs :
    native[p].kind # "free" =>
      /\ Cardinality(Owners(p)) <= 1
      /\ native[p].closes <= 1
      /\ Owners(p) = {} => native[p].closes = 1

\* The statuses with which a native call reports success.
Success == {SQLITE_OK, SQLITE_ROW, SQLITE_DONE}

\* A freshly prepared statement with the text and the bindings of v.
FreshlyPrepared(v) == [v EXCEPT !.pc = 0, !.failed = FALSE]

RECURSIVE RowsByStep(_)
\* The rows a caller reads by calling Step() on v until it returns false.
RowsByStep(v) ==
  LET r == EngineStep(v, FALSE)
  IN IF StepReturn(r.status) = "true" THEN <<ReadRow(r.vm)>> \o RowsByStep(r.vm) ELSE <<>>

Prefix(a, b) == Len(a) <= Len(b) /\ a = SubSeq(b, 1, Len(a))

\* C3: a range-for over a statement (begin, then dereference and advance until
\* equal to end) reads the rows that repeated Step() calls read from an
\* equivalent freshly prepared statement: the same rows in the same order at
\* every position, the first one right after construction, and all of them,
\* none twice, when the iterator has become equal to end.
C3_IterationEqualsStepping ==
  (Running /\ trav = "iter") =>
    LET v == vm[StmtGetAbi(last.obj)]
        rows == RowsByStep(FreshlyPrepared(v))
    IN /\ (IterNotEnd /\ it.read) => (Prefix(seen, rows) /\ Len(seen) = v.pc)
       /\ (IterNotEnd /\ ~it.read) => (Prefix(seen, rows) /\ Len(seen) = v.pc - 1)
       /\ (~IterNotEnd /\ last.op \in {"begin", "++"} /\ last.how = "ret") => seen = rows

\* C3 witness: a loop over the table query has read every row and reached end.
C3_Witness ==
  /\ trav = "iter" /\ ~IterNotEnd /\ last.op = "++" /\ last.how = "ret"
  /\ Len(seen) = MaxRows /\ seen[1] = <<TableRow(1)>>

\* C7: Step() returns true exactly when the native step reports a row, false
\* exactly when it reports done, and raises for every other status; stepping
\* a statement from its start yields its n rows, each readable through the
\* getters, on the first n calls and false on call n + 1.
C7_StepFollowsStatus ==
  last.op = "Step" =>
    LET v == vm[StmtGetAbi(last.obj)]
        rows == ResultSet(v)
    IN /\ (last.how = "ret" /\ last.ret = "true") <=> last.status = SQLITE_ROW
       /\ (last.how = "ret" /\ last.ret = "false") <=> last.status = SQLITE_DONE
       /\ last.how = "throw" <=> last.status \notin {SQLITE_ROW, SQLITE_DONE}
       /\ (trav = "step" /\ last.how = "ret" /\ last.ret = "true") =>
            /\ Len(seen) = v.pc /\ Prefix(seen, rows)
            /\ \A col \in 0..(Columns(v.sql) - 1) : GetInt32(v, col) = rows[v.pc][col + 1]
       /\ (trav = "step" /\ last.how = "ret" /\ last.ret = "false") => seen = rows

\* C7 witness: "SELECT ?, ?" with 42 bound at position 1 has yielded its one
\* row, column 0 reading 42, and the second Step has returned false.
C7_Witness ==
  /\ last.op = "Step" /\ last.how = "ret" /\ last.ret = "false" /\ trav = "step"
  /\ vm[StmtGetAbi(last.obj)].sql = SqlParams
  /\ Len(seen) = 1 /\ seen[1][1] = 42

\* C8: every native call that fails is raised to the caller's handler as an
\* SQLiteException, whichever path made the call: Step(), the construction of
\* a row iterator (begin) or its advance (operator++).
C8_FailuresReachHandler ==
  last.status \notin Success => last.how = "throw"

\* C10: Reset() on a statement that is positioned or has run to completion
\* succeeds, puts the cursor before the first row and keeps every binding;
\* on a statement already at its start it changes nothing (Reset twice is
\* Reset once); stepping through after a Reset yields the whole result set
\* of the bindings again.
C10_ResetRewindsKeepsBindings ==
  LET v == vm[StmtGetAbi(last.obj)]
  IN /\ last.op = "Reset" =>
          /\ last.how = "ret" <=> ~last.prevm.failed
          /\ v = [last.prevm EXCEPT !.pc = 0, !.failed = FALSE]
          /\ (last.prevm.pc = 0 /\ ~last.prevm.failed) => v = last.prevm
     /\ (rewound /\ last.op = "Step" /\ trav = "step" /\ last.how = "ret" /\ last.ret = "false") =>
          seen = ResultSet(v)

\* C10 witness: after a Reset the statement with 42 and 7 bound was stepped
\* to completion and yielded its row again.
C10_Witness ==
  /\ rewound /\ last.op = "Step" /\ trav = "step" /\ last.ret = "false"
  /\ seen = <<<<42, 7>>>>

\* C6: a Prepare whose native prepare fails raises an SQLiteException with a
\* non-zero code, binds none of the values, and leaves the statement
\* unprepared: its boolean conversion is false and GetAbi() is null.
C6_FailedPrepareLeavesUnprepared ==
  \A s \in StmtIds :
    (last.op = "Prepare" /\ last.obj = s /\ last.failpos = 0 /\ last.status # SQLITE_OK) =>
      /\ last.how = "throw" /\ last.code # 0
      /\ \A i \in 1..Len(last.events) : last.events[i] # "bind"
      /\ ~StmtBool(s) /\ StmtGetAbi(s) = NULL

\* C6 witness: invalid text prepared, with values to bind, on a statement that
\* was already prepared.
C6_Witness ==
  /\ last.op = "Prepare" /\ last.how = "throw" /\ last.status = SQLITE_ERROR /\ last.failpos = 0
  /\ last.pre # NULL /\ Len(last.args) > 0 /\ ~StmtBool(last.obj)

\* The bindings a BindAll or a Prepare started from.
BindingsBefore ==
  IF last.op = "BindAll" THEN last.prevm.binds
  ELSE [i \in DOMAIN vm[StmtGetAbi(last.obj)].binds |-> UnboundVal]

\* C9: BindAll(v0 .. v(k-1)), and a Prepare with these values, bind vi at
\* position i + 1; when the Bind at position j fails an SQLiteException is
\* raised, positions before j hold their new values and the positions from j
\* on hold what they held before.
C9_BindAllIsPositional ==
  (last.op \in {"BindAll", "Prepare"} /\ ~(last.failpos = 0 /\ last.status # SQLITE_OK)) =>
    LET binds == vm[StmtGetAbi(last.obj)].binds
        k == Len(last.args)
        j == last.failpos
    IN /\ last.how = "ret" =>
            /\ j = 0 /\ k <= Len(binds)
            /\ \A i \in DOMAIN binds :
                 binds[i] = IF i <= k THEN last.args[i] ELSE BindingsBefore[i]
       /\ last.how = "throw" =>
            /\ j \in 1..k /\ last.code # 0
            /\ \A i \in DOMAIN binds :
                 binds[i] = IF i < j THEN last.args[i] ELSE BindingsBefore[i]
       /\ last.how \in {"ret", "throw"}

\* C9 witness: the Bind at position 2 failed; position 1 holds its new value,
\* position 2 the old one.
C9_Witness ==
  /\ last.op = "BindAll" /\ last.how = "throw" /\ last.failpos = 2
  /\ last.prevm.binds = <<7, 7>> /\ last.args = <<42, 42>>
  /\ vm[StmtGetAbi(last.obj)].binds = <<42, 7>>

\* What a Backup.Step that returned says about the pages left to copy.
StepTellsPagesLeft ==
  (last.op = "Backup.Step" /\ last.how = "ret") =>
    /\ last.ret = "true" <=> bkst[last.pre].remaining > 0
    /\ last.ret = "false" <=> bkst[last.pre].remaining = 0

\* C4 as stated: Step returns true on every call after which pages remain,
\* and false exactly once over the lifetime of the Backup.
C4_FalseExactlyOnce ==
  /\ StepTellsPagesLeft
  /\ \A b \in BkIds : bkFalse[b] <= 1

\* C4 as amended: Step returns true on every call that returns with pages
\* left to copy and false on every call that returns with none left, which is
\* the call that completes the copy and every call after it; and a caller
\* that keeps stepping with a positive page count, the engine not failing,
\* eventually gets false.
C4_FalseOnceCompleted ==
  /\ [](StepTellsPagesLeft)
  /\ [](\A b \in BkIds :
          (bkFalse[b] >= 1 /\ last.op = "Backup.Step" /\ last.obj = b) =>
            (last.how = "ret" /\ last.ret = "false"))
  /\ \A b \in BkIds :
       (bk[b].life = "alive" /\ HandleBool(bk[b].h))
         ~> (bkFalse[b] >= 1 \/ bk[b].life # "alive" \/ ~HandleBool(bk[b].h))

\* C4 witness: a Backup stepped one page at a time returned true while a page
\* was left, and has returned false on the completing call and on a later one.
C4_Witness ==
  /\ bkFalse[1] = 2 /\ last.op = "Backup.Step" /\ last.ret = "false"
  /\ last.args = <<1>> /\ bkst[last.pre].remaining = 0

\* C5: when the native step reports neither ok nor done, Step has finished
\* the handle (the Backup is left Empty, the engine's backup closed once)
\* before it raises, so that the SQLiteException read from the destination
\* connection carries the status the finish published there; and no backup
\* handle is ever finished twice, by a later destruction or otherwise.
C5_FinishThenRaise ==
  /\ \A b \in BkIds :
       (last.op = "Backup.Step" /\ last.obj = b /\ last.status \notin {SQLITE_OK, SQLITE_DONE}) =>
         /\ last.how = "throw"
         /\ ~HandleBool(bk[b].h)
         /\ native[last.pre].closes = 1 /\ ~native[last.pre].live
         /\ last.events = <<"step", "finish", "raise">>
         /\ last.code = EngineErrcode(errcode, ConnGetAbi(bk[b].dest))
         /\ bkst[last.pre].dst = ConnGetAbi(bk[b].dest) => (last.code = last.status /\ last.code # 0)
  /\ \A p \in Ptrs : native[p].kind = "backup" => native[p].closes <= 1

\* C5 witness: a Backup whose Step failed and raised has been destroyed; its
\* handle was Empty by then and the engine's backup was finished once.
C5_Witness ==
  /\ last.op = "~Backup" /\ last.pre = NULL
  /\ \E p \in Ptrs : native[p].kind = "backup" /\ native[p].closes = 1 /\ bkst[p].rc = SQLITE_BUSY

\* The three move operations, by the name they leave in last.op, with the
\* handle each wrapper holds and the name its destructor leaves.
MoveOps ==
  {[op |-> "Connection.move", dtor |-> "~Connection", kind |-> "connection",
    h |-> [x \in ConnIds |-> conn[x].h]],
   [op |-> "Statement.move", dtor |-> "~Statement", kind |-> "statement",
    h |-> [x \in StmtObjs |-> stmt[x].h]],
   [op |-> "Backup.move", dtor |-> "~Backup", kind |-> "backup",
    h |-> [x \in BkObjs |-> bk[x].h]]}

\* After a move the source is Empty and the target holds what the source held.
MovedSourceEmpty ==
  \A m \in MoveOps :
    last.op = m.op =>
      LET t == last.obj
          s == last.args[1]
      IN /\ HandleGet(m.h[s]) = NULL /\ ~HandleBool(m.h[s])
         /\ HandleGet(m.h[t]) = last.pre
         /\ last.pre # NULL => Owners(last.pre) = {<<m.kind, t>>}

\* C11: moving a Connection, a Statement or a Backup, by construction or by
\* assignment, leaves the source Empty (GetAbi() null, converting to false)
\* and the target holding the pointer the source held, as its only owner; and
\* destroying the moved-from source closes nothing.
C11_MoveLeavesSourceEmpty ==
  /\ []MovedSourceEmpty
  /\ [][\A m \in MoveOps :
          (last.op = m.op /\ last'.op = m.dtor /\ last'.obj = last.args[1]) =>
            (native' = native /\ last'.pre = NULL)]_vars

\* C11 witness: a Connection holding a session was move-assigned to another
\* that held one too; the target holds the source's session, the source none.
C11_Witness ==
  /\ last.op = "Connection.move" /\ last.pre # NULL /\ last.events = <<"close", "move">>
  /\ conn[last.obj].h = last.pre /\ conn[last.args[1]].h = NULL

\* The rows "SELECT ..." over the main schema of session db returns: what was
\* written to its pages, in page order.
QueryRows(db) == [i \in 1..Len(SelectSeq(native[db].content, LAMBDA x : x # 0)) |->
                   <<SelectSeq(native[db].content, LAMBDA x : x # 0)[i]>>]

\* C12: when Step of a Backup(destination B, source A) has returned false,
\* no error having occurred and nothing having been written to A or B while
\* it was copying, the engine has copied from A's session to B's and the main
\* schema of B's session has the content of A's: a query returns the same
\* rows in the same order on both.
C12_BackupCopiesSource ==
  \A b \in BkObjs :
    (last.op = "Backup.Step" /\ last.obj = b /\ last.how = "ret" /\ last.ret = "false") =>
      LET B == ConnGetAbi(bk[b].dest)
          A == ConnGetAbi(bk[b].source)
      IN /\ A # B
         /\ bkst[BackupGetAbi(b)].src = A /\ bkst[BackupGetAbi(b)].dst = B
         /\ native[B].content = native[A].content
         /\ QueryRows(B) = QueryRows(A)

\* C12 witness: every page of A was written, differently; a Backup stepped
\* one page at a time has returned false and B returns A's rows.
C12_Witness ==
  /\ last.op = "Backup.Step" /\ last.ret = "false" /\ last.args = <<1>>
  /\ LET A == ConnGetAbi(bk[last.obj].source)
     IN /\ Len(QueryRows(A)) = MaxPages
        /\ QueryRows(A)[1] # QueryRows(A)[2]
        /\ QueryRows(ConnGetAbi(bk[last.obj].dest)) = QueryRows(A)

\* What the getter matching encoding enc returns, and its length getter.
MatchingGetter(enc, v, column, junk) ==
  IF enc = "narrow" THEN GetString(v, column, junk)
  ELSE IF enc = "wide" THEN GetWideString(v, column, junk)
  ELSE IF enc = "u8" THEN GetU8String(v, column, junk)
  ELSE GetU16String(v, column, junk)

MatchingLength(enc, v, column) ==
  IF enc = "narrow" THEN GetStringLength(v, column)
  ELSE IF enc = "wide" THEN GetWideStringLength(v, column)
  ELSE IF enc = "u8" THEN GetU8StringLength(v, column)
  ELSE GetU16StringLength(v, column)

\* A text bound at position i + 1 reads back at column i, unit for unit, with
\* its number of code units as length, whatever lies behind the buffer.
RoundTrips(v) ==
  \A i \in 0..(Columns(v.sql) - 1) :
    LET t == v.texts[i + 1]
    IN t.unit # 0 =>
         /\ \A junk \in Junk : MatchingGetter(t.bound.enc, v, i, junk) = t.bound.text
         /\ MatchingLength(t.bound.enc, v, i) = Len(t.bound.text)

\* C13: for each of the four encodings and each way of binding, with 2-byte
\* and with 4-byte wchar_t, an ASCII text bound at position i + 1 of
\* "SELECT ?, ?" is read back at column i by the matching getter code unit for
\* code unit, and the matching length getter returns its number of code units.
C13_TextRoundTrips ==
  \A s \in StmtIds :
    (StmtBool(s) /\ Positioned(vm[StmtGetAbi(s)])) => RoundTrips(vm[StmtGetAbi(s)])

\* C14: right after its construction from a statement, and after each
\* advance, the iterator differs from end(statement) exactly when the step
\* just made yielded a row; an iterator equal to end refers to no statement,
\* and the loop neither dereferences nor advances it.
C14_EndIffNoRow ==
  /\ []((last.op \in {"begin", "++"} /\ last.how = "ret") =>
          /\ IterNotEnd <=> last.status = SQLITE_ROW
          /\ IterNotEnd <=> last.ret = "true"
          /\ ~IterNotEnd => it.st = NULL)
  /\ [][~IterNotEnd => last'.op \notin {"*", "++"}]_vars

\* C14 witness: the advance after the one row of "SELECT ?, ?" found no row
\* and left the iterator equal to end.
C14_Witness ==
  /\ last.op = "++" /\ last.how = "ret" /\ last.status = SQLITE_DONE /\ it = NoIterator
  /\ vm[StmtGetAbi(last.obj)].sql = SqlParams

\* C15: when an iterator over a statement has reached end, a new iterator
\* constructed on the same statement with no Reset() in between yields no
\* row: it is equal to end.
C15_NotRestartable ==
  [][\A s \in StmtIds :
       (/\ last.op \in {"begin", "++"} /\ last.obj = s /\ last.how = "ret" /\ last.ret = "false"
        /\ last'.op = "begin" /\ last'.obj = s /\ last'.how = "ret")
       => ~IterNotEnd']_vars

\* C16: Execute() makes exactly one native step, with _DEBUG and without.
\* When the step reports a row, a build with _DEBUG fails an assertion and a
\* build without accepts it and leaves the statement positioned on the row;
\* when it reports done Execute() returns; any other status is raised as an
\* SQLiteException, in both builds.
C16_ExecuteStepsOnce ==
  last.op = "Execute" =>
    LET v == vm[last.pre]
    IN /\ \E fault \in BOOLEAN : EngineStep(last.prevm, fault) = [status |-> last.status, vm |-> v]
       /\ Len(SelectSeq(last.events, LAMBDA e : e = "step")) = 1
       /\ last.status = SQLITE_ROW =>
            /\ last.how = IF build.debug THEN "assert" ELSE "ret"
            /\ Positioned(v)
       /\ last.status = SQLITE_DONE => last.how = "ret"
       /\ last.status \notin {SQLITE_ROW, SQLITE_DONE} => (last.how = "throw" /\ last.code # 0)

\* C16 witness: without _DEBUG, Execute() on the table query returned and
\* left the statement on its first row.
C16_Witness ==
  /\ last.op = "Execute" /\ ~build.debug /\ last.how = "ret" /\ last.status = SQLITE_ROW
  /\ vm[last.pre].sql = SqlRows /\ vm[last.pre].pc = 1

\* The session an operation that raised is to read the error from: the
\* temporary's own for Open, that of the connection passed for a prepare that
\* failed and for a Backup not constructed, that of the destination
\* connection for Backup.Step, and for everything on a statement the session
\* the engine names as the statement's.
ErrorSession ==
  CASE last.op = "Open" -> last.wrote
    [] last.op = "Prepare" /\ last.failpos = 0 -> last.via
    [] last.op = "Prepare" /\ last.failpos > 0 -> EngineDbHandle(vm[StmtGetAbi(last.obj)])
    [] last.op = "Backup" -> last.via
    [] last.op = "Backup.Step" -> ConnGetAbi(bk[last.obj].dest)
    [] OTHER -> EngineDbHandle(vm[last.pre])

RaisedFromItsSession ==
  last.how \in {"throw", "terminate"} =>
    /\ last.exc.session = ErrorSession
    /\ last.exc.ErrorCode = EngineErrcode(errcode, ErrorSession)
    /\ last.exc.ErrorMessage = EngineErrmsg(errcode, ErrorSession)
    /\ last.code = last.exc.ErrorCode
    /\ last.op = "Backup.Step" => ErrorSession = bkst[last.pre].dst
    /\ last.op = "Prepare" => \E c \in ConnIds : ConnGetAbi(c) = ErrorSession

\* C17: an exception raised carries the extended code and the message that
\* the session of the failing call has at that moment: the temporary's own
\* handle for Open, the connection passed for Prepare, the session the engine
\* names as the statement's for Bind, Step and Reset, the destination
\* connection for a Backup and its Step; and an operation that raises
\* nothing leaves the exception raised before as it was.
C17_ErrorFromOwningSession ==
  /\ []RaisedFromItsSession
  /\ [][last'.how \notin {"throw", "terminate"} => last'.exc = last.exc]_vars

\* C17 witness: a prepare failed on a session whose last error has since
\* been replaced, and the exception still says what it said.
C17_Witness ==
  /\ last.how = "ret" /\ last.exc.session # NULL
  /\ last.exc.ErrorCode = SQLITE_ERROR
  /\ EngineErrcode(errcode, last.exc.session) # last.exc.ErrorCode

\* C18: a Prepare on a statement that holds a compiled statement finalizes
\* that one exactly once, whether the new prepare succeeds or fails, and
\* leaves the statement with the new handle alone, or with none when the
\* prepare failed.
C18_PrepareFinalizesPrevious ==
  (last.op = "Prepare" /\ last.pre # NULL) =>
    /\ native[last.pre].closes = 1
    /\ ~native[last.pre].live
    /\ last.how = "ret" => (StmtGetAbi(last.obj) = last.wrote /\ last.wrote # last.pre)
    /\ (last.how = "throw" /\ last.failpos = 0) => ~StmtBool(last.obj)

\* C19: Open neither leaks a session nor closes one twice.  When it succeeds
\* on a connection that holds a session, that session is closed exactly once
\* and the connection holds the new one, open and never closed; when it
\* fails, the session the native open wrote to the temporary, if any, is
\* closed exactly once by the time the exception leaves, and the connection
\* still holds its previous session, open and never closed.
C19_OpenClosesExactlyOnce ==
  last.op = "Open" =>
    IF last.how = "ret"
    THEN /\ last.pre # NULL => (native[last.pre].closes = 1 /\ ~native[last.pre].live)
         /\ last.wrote # NULL /\ last.wrote # last.pre
         /\ ConnGetAbi(last.obj) = last.wrote
         /\ native[last.wrote].live /\ native[last.wrote].closes = 0
    ELSE /\ last.how = "throw"
         /\ last.wrote # NULL => (native[last.wrote].closes = 1 /\ ~native[last.wrote].live)
         /\ last.events = <<"open", "raise", "close">>
         /\ ConnGetAbi(last.obj) = last.pre
         /\ last.pre # NULL => (native[last.pre].live /\ native[last.pre].closes = 0)

\* C19 witness: Open succeeded on a connection that held a session, which
\* is now closed once, and the connection holds the new session.
C19_Witness ==
  /\ last.op = "Open" /\ last.how = "ret" /\ last.pre # NULL
  /\ native[last.pre].closes = 1
  /\ ConnGetAbi(last.obj) = last.wrote /\ native[last.wrote].live

====
